---- MODULE Spec2Model ----
(***************************************************************************)
(* Model of the MQTT failover client (client-examples/python/              *)
(* failover-client.py, class MQTTFailoverClient).                          *)
(*                                                                         *)
(* Two threads act on one client object: the application thread, which     *)
(* calls connect(), disconnect() and subscribe(), and the network thread   *)
(* started by loop_start(), which runs the callbacks on_connect and        *)
(* on_disconnect.  A handler that blocks (time.sleep, the blocking TCP     *)
(* connect, the polling wait for the acknowledgment, the join inside       *)
(* loop_stop) is cut at its blocking points; everything between two        *)
(* blocking points is one step.  Time is not measured: a sleep ends and a  *)
(* bounded wait expires whenever the scheduler lets the thread go on.      *)
(***************************************************************************)
EXTENDS Integers, Sequences, FiniteSets, TLC

(***************************************************************************)
(* Program constants.                                                      *)
(***************************************************************************)
max_reconnect_attempts == 10
reconnect_delay == 5
max_delay == 60
stale_after == 30

(***************************************************************************)
(* Bounds of the model.                                                    *)
(***************************************************************************)
NumTopics == 2
MaxQos == 1
MaxMessages == 1
NumReporting == 2
MaxAge == 35
MaxSweeps == 2

Topics == 1..NumTopics
QosLevels == 0..MaxQos

None == "None"

VARIABLES
    connected,            \* self.connected
    reconnect_attempts,   \* self.reconnect_attempts
    subscribed_topics,    \* self.subscribed_topics
    connection_start,     \* self.connection_start: None or a time
    delay,                \* the value last passed to time.sleep by handle_reconnection
    transport,            \* the socket of self.client: closed, pending (CONNECT sent,
                          \* no CONNACK yet), refused (CONNACK rc # 0), up (CONNACK rc = 0)
    loop_running,         \* the network thread exists (loop_start .. loop_stop)
    netpc,                \* network thread: idle (in the loop), backoff,
                          \* attempt_wait, replay (in the for loop of
                          \* resubscribe_topics), exited (left the loop on loop_stop),
                          \* crashed (ended by an exception of a callback)
    messages_sent,        \* self.messages_sent
    messages_received,    \* self.messages_received
    returned,             \* what the last call of publish or subscribe returned
    connected_broker,     \* aggregator, self.connected_broker: None or a broker id
    broker_status,        \* aggregator, the dict broker_status: broker id -> the
                          \* record last received, its last_seen kept as the
                          \* seconds gone since
    client_connections,   \* aggregator, the dict client_connections, likewise
    received,             \* aggregator, observation: for each store and key, the
                          \* JSON object of the last message filed under the key
    delivered,            \* aggregator, observation: <<topic, payload>> of the
                          \* message on_message handled in the last step, <<>>
                          \* after any other step
    response,             \* aggregator, the body of the HTTP response the last
                          \* step returned, <<>> if it returned none
    monpc,                \* aggregator, start_monitoring: top, pass (inside
                          \* connect_to_available_broker), retry_sleep, check,
                          \* check_id, sleep, dead (ended by an exception)
    pass_pos,             \* aggregator, the place of the for loop of
                          \* connect_to_available_broker in the sorted list
    pass_tried,           \* aggregator, the ids tried in vain by the current or
                          \* last call of connect_to_available_broker, in order
    mon_loop_running,     \* aggregator, loop_start() has started the network thread
    mon_session,          \* aggregator, the connection of self.client: closed,
                          \* tcp (connected, CONNACK due), acked (on_connect has run)
    monstep,              \* aggregator, the step taken last
    results,              \* prober, self.results: broker id -> entry
    sweep_pos,            \* prober, the place of the for loop of check_all_brokers
                          \* in BROKERS, 0 outside a sweep
    sweep_no,             \* prober, the number of sweeps started (the time of the
                          \* entries a sweep writes)
    probe_returned,       \* prober, what the last check_broker returned
    replay_start,         \* the registry as it was when the for loop of
                          \* resubscribe_topics created its iterator
    replay_log,           \* packets handed to self.client by the current or last
                          \* on_connect callback, in order
    prev_replay,          \* <<the set of topics re-subscribed by the on_connect
                          \* callback before that one>>, <<>> if there was none
    apppc,                \* application thread: idle, connect_tcp, connect_wait,
                          \* disc_sleep, disc_join
    sent,                 \* packets handed to self.client by the last step
    step,                 \* the step taken last
    connect_result,       \* what the last explicit connect() gave its caller
    gave_up,              \* handle_reconnection printed "Giving up" and no
                          \* acknowledgment has arrived since
    auto,                 \* lost: a connected client lost its connection unexpectedly
                          \* and the application has made no lifecycle call since;
                          \* recovered: it was then accepted again; none otherwise
    app_intent,           \* the last lifecycle call of the application: none, connect,
                          \* disconnect, or disconnect_pending (disconnect called while
                          \* handle_reconnection was sleeping or connecting)
    failed_at_call        \* gave_up held when the last explicit connect() was called

fields == <<connected, reconnect_attempts, subscribed_topics, connection_start, delay>>
threads == <<transport, loop_running, netpc, apppc>>
replay == <<replay_start, replay_log, prev_replay>>
counters == <<messages_sent, messages_received, returned>>
observed == <<sent, step, connect_result, gave_up, auto, app_intent, failed_at_call>>
failover_client == <<fields, threads, replay, counters, observed>>
monitor == <<connected_broker, broker_status, client_connections, received, delivered,
             response, monpc, pass_pos, pass_tried, mon_loop_running, mon_session, monstep>>
prober == <<results, sweep_pos, sweep_no, probe_returned>>
vars == <<failover_client, monitor, prober>>

Min(a, b) == IF a <= b THEN a ELSE b

(***************************************************************************)
(* Packets handed to the MQTT client object.                               *)
(***************************************************************************)
StatusPacket(status) ==
    [kind |-> "publish", topic |-> "clients/status/id", status |-> status,
     retain |-> TRUE, qos |-> 0]

SubscribePacket(topic, qos) ==
    [kind |-> "subscribe", topic |-> topic, status |-> "", retain |-> FALSE,
     qos |-> qos]

PublishPacket(topic, qos, retain) ==
    [kind |-> "publish", topic |-> topic, status |-> "", retain |-> retain,
     qos |-> qos]

\* The topics among the packets of a log that are subscribes.
SubscribedIn(log) ==
    {log[i].topic : i \in {j \in 1..Len(log) : log[j].kind = "subscribe"}}

(***************************************************************************)
(* Pure parts of the handlers.                                             *)
(***************************************************************************)
\* Variants of BackoffDelay: the exponent taken from the counter itself, and
\* the cap forgotten.
BackoffDelayFromCounter(n) == Min(reconnect_delay * (2 ^ n), max_delay)
BackoffDelayUncapped(n) == reconnect_delay * (2 ^ (n - 1))

\* handle_reconnection: the delay of attempt number n (n counted after the
\* increment).
BackoffDelay(n) == Min(reconnect_delay * (2 ^ (n - 1)), max_delay)

\* Variant of CanRetry: one attempt too many.
CanRetryInclusive(n) == n <= max_reconnect_attempts

\* handle_reconnection: the test that admits a further attempt.
CanRetry(n) == n < max_reconnect_attempts

\* Variant of publish_client_status: the record is published in any state.
publish_client_status_always(conn, status) == <<StatusPacket(status)>>

\* publish_client_status: a retained status record, only while connected.
publish_client_status(conn, status) ==
    IF conn THEN <<StatusPacket(status)>> ELSE <<>>

\* Variant of publish: the message is handed over in either case.
publish_always(conn, packet) == <<packet>>

\* publish: the message is handed to the transport only while connected.
publish(conn, packet) == IF conn THEN <<packet>> ELSE <<>>

\* Variant of registry_add: the registry keeps the last topic only.
registry_last(registry, topic) == {topic}

\* subscribe, self.subscribed_topics.add(topic).
registry_add(registry, topic) == registry \cup {topic}

\* publish: result.mid while connected, None otherwise.
publish_return(conn) == IF conn THEN "mid" ELSE None

\* subscribe: no return statement in either branch.
subscribe_return(conn) == None

\* What the payload of a received message may be: a JSON object, JSON of
\* another type, or no JSON at all.
Payloads == {"object", "scalar", "invalid"}

\* on_message dispatches on the prefix of the topic.
TopicPrefixes == {"sensors/", "commands/", "other"}

\* Variant of IteratorNext: the walk stops one element early.
IteratorNextShort(registry, visited) ==
    IF Cardinality(visited) + 1 < Cardinality(registry)
    THEN registry \ visited ELSE {}

\* resubscribe_topics, for topic in self.subscribed_topics: the elements the
\* set iterator may yield next (a set is walked in no particular order, each
\* element once).
IteratorNext(registry, visited) == registry \ visited

\* The set iterator remembers the size of the set and raises RuntimeError
\* ("Set changed size during iteration") when asked for the next element of
\* a set whose size differs.
IteratorBroken(registry, at_start) ==
    Cardinality(registry) # Cardinality(at_start)

\* resubscribe_topics, self.client.subscribe(topic): the default qos.
resubscribe_topics(topic) == SubscribePacket(topic, 0)

\* Variant of client_send: the packet is put in front.
client_send_first(log, packet) == <<packet>> \o log

\* self.client.subscribe / publish: the packet follows those handed over
\* before.
client_send(log, packet) == Append(log, packet)

\* self.client.connect(host, port, 60): the old socket is dropped; the TCP
\* connect either succeeds (CONNECT is sent, the acknowledgment is pending)
\* or raises.
ConnectOutcomes == {"ok", "raise"}
client_connect(outcome) == IF outcome = "ok" THEN "pending" ELSE "closed"

\* Variant of on_connect_attempts: the counter is left as it is.
on_connect_attempts_kept == reconnect_attempts

\* on_connect: the value reconnect_attempts takes on an accepted connection.
on_connect_attempts == 0

\* CONNACK return codes: 0 accepts, anything else refuses.
ConnackCodes == {0, 5}

\* loop_stop() raises the thread's terminate flag and joins it: a callback
\* that returns while the application waits in loop_stop() returns to a loop
\* that ends; otherwise it returns to the running loop.
NetReturn == IF apppc = "disc_join" THEN "exited" ELSE "idle"

ExplicitDisconnect == app_intent \in {"disconnect", "disconnect_pending"}

Init ==
    /\ connected = FALSE
    /\ reconnect_attempts = 0
    /\ subscribed_topics = {}
    /\ connection_start = None
    /\ delay = 0
    /\ transport = "closed"
    /\ loop_running = FALSE
    /\ netpc = "idle"
    /\ apppc = "idle"
    /\ connected_broker = None
    /\ broker_status = <<>>
    /\ client_connections = <<>>
    /\ received = [health |-> <<>>, status |-> <<>>]
    /\ delivered = <<>>
    /\ response = <<>>
    /\ results = <<>>
    /\ sweep_pos = 0
    /\ sweep_no = 0
    /\ probe_returned = FALSE
    /\ monpc = "top"
    /\ pass_pos = 1
    /\ pass_tried = <<>>
    /\ mon_loop_running = FALSE
    /\ mon_session = "closed"
    /\ monstep = "init"
    /\ replay_start = {}
    /\ replay_log = <<>>
    /\ prev_replay = <<>>
    /\ messages_sent = 0
    /\ messages_received = 0
    /\ returned = None
    /\ sent = <<>>
    /\ step = "init"
    /\ connect_result = "none"
    /\ gave_up = FALSE
    /\ auto = "none"
    /\ app_intent = "none"
    /\ failed_at_call = FALSE

(***************************************************************************)
(* Network thread.                                                         *)
(***************************************************************************)
\* on_connect(rc), delivered by the network loop when the CONNACK arrives:
\* everything up to the for loop of resubscribe_topics.
OnConnect(rc) ==
    /\ loop_running /\ netpc = "idle" /\ transport = "pending"
    /\ IF rc = 0
       THEN /\ connected' = TRUE
            /\ reconnect_attempts' = on_connect_attempts
            /\ connection_start' = "time"
            /\ sent' = publish_client_status(TRUE, "connected")
            /\ replay_log' = sent'
            /\ prev_replay' = IF replay_log = <<>> THEN <<>>
                              ELSE <<SubscribedIn(replay_log)>>
            /\ replay_start' = subscribed_topics
            /\ netpc' = "replay"
            /\ transport' = "up"
            /\ step' = "OnConnectOk"
            /\ gave_up' = FALSE
            /\ auto' = IF auto = "lost" THEN "recovered" ELSE auto
       ELSE /\ connected' = FALSE
            /\ UNCHANGED <<reconnect_attempts, connection_start, gave_up, auto,
                           replay>>
            /\ sent' = <<>>
            /\ netpc' = NetReturn
            /\ transport' = "refused"
            /\ step' = "OnConnectRefused"
    /\ UNCHANGED <<counters, subscribed_topics, delay, loop_running, apppc,
                   connect_result, app_intent, failed_at_call>>
    /\ UNCHANGED <<monitor, prober>>

\* on_connect, one round of the for loop of resubscribe_topics: the iterator
\* raises, or yields a topic that is subscribed, or is exhausted and the
\* callback returns.  An exception leaves the callback and ends the network
\* thread.
ReplayStep ==
    /\ netpc = "replay"
    /\ IF IteratorBroken(subscribed_topics, replay_start)
       THEN /\ netpc' = "crashed"
            /\ sent' = <<>>
            /\ step' = "ReplayError"
            /\ UNCHANGED replay_log
       ELSE IF IteratorNext(subscribed_topics, SubscribedIn(replay_log)) # {}
       THEN /\ \E topic \in IteratorNext(subscribed_topics, SubscribedIn(replay_log)) :
                   /\ sent' = <<resubscribe_topics(topic)>>
                   /\ replay_log' = client_send(replay_log, resubscribe_topics(topic))
            /\ step' = "ReplayStep"
            /\ UNCHANGED netpc
       ELSE /\ netpc' = NetReturn
            /\ sent' = <<>>
            /\ step' = "ReplayDone"
            /\ UNCHANGED replay_log
    /\ UNCHANGED <<fields, transport, loop_running, apppc, replay_start,
                   prev_replay, counters, connect_result, gave_up, auto, app_intent, failed_at_call>>
    /\ UNCHANGED <<monitor, prober>>

\* handle_reconnection up to its time.sleep(delay).
handle_reconnection ==
    IF CanRetry(reconnect_attempts)
    THEN /\ reconnect_attempts' = reconnect_attempts + 1
         /\ delay' = BackoffDelay(reconnect_attempts + 1)
         /\ netpc' = "backoff"
         /\ UNCHANGED gave_up
    ELSE /\ UNCHANGED <<reconnect_attempts, delay>>
         /\ netpc' = NetReturn
         /\ gave_up' = TRUE

\* on_disconnect(rc): rc = 0 reports the end of a requested disconnect,
\* anything else an unexpected loss.
on_disconnect(rc) ==
    /\ connected' = FALSE
    /\ IF rc # 0
       THEN handle_reconnection
       ELSE UNCHANGED <<reconnect_attempts, delay, gave_up>>

\* The network loop finds the socket lost and calls on_disconnect(rc), rc # 0.
OnDisconnect ==
    /\ loop_running /\ netpc = "idle" /\ transport # "closed"
    /\ on_disconnect(1)
    /\ transport' = "closed"
    /\ sent' = <<>>
    /\ step' = "OnDisconnect"
    /\ auto' = IF ~ExplicitDisconnect /\ (connected \/ auto = "lost")
               THEN "lost" ELSE auto
    /\ UNCHANGED <<replay, counters, subscribed_topics, connection_start, loop_running, apppc,
                   connect_result, app_intent, failed_at_call>>
    /\ UNCHANGED <<monitor, prober>>

\* handle_reconnection after the sleep: self.connect() up to its wait loop.
\* An exception of client.connect is caught and the handler returns.
ReconnectConnect(outcome) ==
    /\ netpc = "backoff"
    /\ transport' = client_connect(outcome)
    /\ netpc' = IF outcome = "ok" THEN "attempt_wait" ELSE NetReturn
    /\ sent' = <<>>
    /\ step' = "ReconnectConnect"
    /\ UNCHANGED <<replay, counters, fields, loop_running, apppc, connect_result, gave_up, auto,
                   app_intent, failed_at_call>>
    /\ UNCHANGED <<monitor, prober>>

\* The wait loop of self.connect() inside handle_reconnection ends: with
\* self.connected set it returns, otherwise "Connection timeout" is raised
\* and caught.  Either way the handler returns to the network loop.
ReconnectWaitEnd ==
    /\ netpc = "attempt_wait"
    /\ netpc' = NetReturn
    /\ sent' = <<>>
    /\ step' = "ReconnectWaitEnd"
    /\ UNCHANGED <<replay, counters, fields, transport, loop_running, apppc, connect_result,
                   gave_up, auto, app_intent, failed_at_call>>
    /\ UNCHANGED <<monitor, prober>>

(***************************************************************************)
(* Application thread.                                                     *)
(***************************************************************************)
\* connect() is called.
Connect ==
    /\ apppc = "idle"
    /\ apppc' = "connect_tcp"
    /\ sent' = <<>>
    /\ step' = "Connect"
    /\ connect_result' = "none"
    /\ auto' = "none"
    /\ app_intent' = "connect"
    /\ failed_at_call' = gave_up
    /\ UNCHANGED <<replay, counters, fields, transport, loop_running, netpc, gave_up>>
    /\ UNCHANGED <<monitor, prober>>

\* connect(): client.connect returns or raises; on return loop_start().
ConnectTcp(outcome) ==
    /\ apppc = "connect_tcp"
    /\ transport' = client_connect(outcome)
    /\ IF outcome = "ok"
       THEN /\ loop_running' = TRUE
            /\ apppc' = "connect_wait"
            /\ UNCHANGED connect_result
       ELSE /\ UNCHANGED loop_running
            /\ apppc' = "idle"
            /\ connect_result' = "error"
    /\ sent' = <<>>
    /\ step' = "ConnectTcp"
    /\ UNCHANGED <<replay, counters, fields, netpc, gave_up, auto, app_intent, failed_at_call>>
    /\ UNCHANGED <<monitor, prober>>

\* connect(): the wait loop ends, by self.connected or by the timeout.
ConnectWaitEnd ==
    /\ apppc = "connect_wait"
    /\ apppc' = "idle"
    /\ connect_result' = IF connected THEN "ok" ELSE "timeout"
    /\ sent' = <<>>
    /\ step' = "ConnectWaitEnd"
    /\ UNCHANGED <<replay, counters, fields, transport, loop_running, netpc, gave_up, auto,
                   app_intent, failed_at_call>>
    /\ UNCHANGED <<monitor, prober>>

\* disconnect() is called: the courtesy status record, then the short sleep.
Disconnect ==
    /\ apppc = "idle"
    /\ sent' = publish_client_status(connected, "disconnecting")
    /\ apppc' = IF connected THEN "disc_sleep" ELSE "disc_join"
    /\ step' = "Disconnect"
    /\ connect_result' = "none"
    /\ auto' = "none"
    /\ app_intent' = IF netpc \in {"backoff", "attempt_wait"}
                     THEN "disconnect_pending" ELSE "disconnect"
    /\ failed_at_call' = FALSE
    /\ UNCHANGED <<replay, counters, fields, transport, loop_running, netpc, gave_up>>
    /\ UNCHANGED <<monitor, prober>>

\* disconnect(): the sleep is over; loop_stop() now waits for the network
\* thread.
DisconnectWake ==
    /\ apppc = "disc_sleep"
    /\ apppc' = "disc_join"
    /\ sent' = <<>>
    /\ step' = "DisconnectWake"
    /\ UNCHANGED <<replay, counters, fields, transport, loop_running, netpc, connect_result,
                   gave_up, auto, app_intent, failed_at_call>>
    /\ UNCHANGED <<monitor, prober>>

\* disconnect(): loop_stop() has joined the network thread (which ends only
\* when its current callback has returned); client.disconnect() closes the
\* socket and reports on_disconnect(0); self.connected = False.
DisconnectJoin ==
    /\ apppc = "disc_join"
    /\ netpc \in {"idle", "exited", "crashed"}
    /\ netpc' = "idle"
    /\ loop_running' = FALSE
    /\ on_disconnect(0)
    /\ transport' = "closed"
    /\ apppc' = "idle"
    /\ sent' = <<>>
    /\ step' = "DisconnectJoin"
    /\ UNCHANGED <<replay, counters, subscribed_topics, connection_start, connect_result, auto,
                   app_intent, failed_at_call>>
    /\ UNCHANGED <<monitor, prober>>

\* subscribe(topic, qos).  The two branches differ in the line they print,
\* which step records.
Subscribe(topic, qos) ==
    /\ apppc = "idle"
    /\ IF connected
       THEN /\ sent' = <<SubscribePacket(topic, qos)>>
            /\ subscribed_topics' = registry_add(subscribed_topics, topic)
            /\ step' = "Subscribe"
       ELSE /\ sent' = <<>>
            /\ step' = "SubscribeRefused"
            /\ UNCHANGED subscribed_topics
    /\ returned' = subscribe_return(connected)
    /\ UNCHANGED <<replay, messages_sent, messages_received, connected,
                   reconnect_attempts, connection_start, delay, threads,
                   connect_result, gave_up, auto, app_intent, failed_at_call>>
    /\ UNCHANGED <<monitor, prober>>

\* publish(topic, payload) with the default qos and retain.  The two branches
\* differ in the line they print, which step records.
Publish ==
    /\ apppc = "idle"
    /\ sent' = publish(connected, PublishPacket("data", 0, FALSE))
    /\ returned' = publish_return(connected)
    /\ step' = IF connected THEN "Publish" ELSE "PublishRefused"
    /\ UNCHANGED <<fields, threads, replay, messages_sent, messages_received,
                   connect_result, gave_up, auto, app_intent, failed_at_call>>
    /\ UNCHANGED <<monitor, prober>>

\* on_publish(mid), delivered by the network loop when a message handed to
\* the transport has left the client.  It changes the counter only.
OnPublish ==
    /\ loop_running /\ netpc = "idle" /\ transport = "up"
    /\ messages_sent < MaxMessages
    /\ messages_sent' = messages_sent + 1
    /\ sent' = <<>>
    /\ step' = "OnPublish"
    /\ UNCHANGED <<fields, threads, replay, messages_received, returned,
                   connect_result, gave_up, auto, app_intent, failed_at_call>>
    /\ UNCHANGED <<monitor, prober>>

\* on_message(msg), delivered by the network loop when a message arrives:
\* the counter, then handle_sensor_message or handle_command_message.  Only
\* json.JSONDecodeError is caught: command.get of JSON that is no object
\* raises, which leaves the callback and ends the network thread.
OnMessage(prefix, payload) ==
    /\ loop_running /\ netpc = "idle" /\ transport = "up"
    /\ messages_received < MaxMessages
    /\ messages_received' = messages_received + 1
    /\ IF prefix = "commands/" /\ payload = "object"
       THEN /\ sent' = publish(connected, PublishPacket("responses/id", 0, FALSE))
            /\ returned' = publish_return(connected)
            /\ UNCHANGED netpc
       ELSE IF prefix = "commands/" /\ payload = "scalar"
       THEN /\ netpc' = "crashed"
            /\ sent' = <<>>
            /\ UNCHANGED returned
       ELSE /\ sent' = <<>>
            /\ UNCHANGED <<netpc, returned>>
    /\ step' = "OnMessage"
    /\ UNCHANGED <<fields, transport, loop_running, apppc, replay, messages_sent,
                   connect_result, gave_up, auto, app_intent, failed_at_call>>
    /\ UNCHANGED <<monitor, prober>>

\* Every step of the client but subscribe.
ClientSteps ==
    \/ \E rc \in ConnackCodes : OnConnect(rc)
    \/ ReplayStep
    \/ OnDisconnect
    \/ \E outcome \in ConnectOutcomes : ReconnectConnect(outcome)
    \/ ReconnectWaitEnd
    \/ Connect
    \/ \E outcome \in ConnectOutcomes : ConnectTcp(outcome)
    \/ ConnectWaitEnd
    \/ Disconnect
    \/ DisconnectWake
    \/ DisconnectJoin
    \/ Publish

Next ==
    \/ ClientSteps
    \/ \E topic \in Topics, qos \in QosLevels : Subscribe(topic, qos)

Spec == Init /\ [][Next]_vars

\* The steps the network thread takes by itself: the callback of a CONNACK
\* that has arrived, the rounds of the replay, and handle_reconnection after
\* its sleep and after the wait loop of its connect().
NetworkThread ==
    \/ \E rc \in ConnackCodes : OnConnect(rc)
    \/ ReplayStep
    \/ \E outcome \in ConnectOutcomes : ReconnectConnect(outcome)
    \/ ReconnectWaitEnd

\* The network thread runs while it can; the application and the loss of
\* connections are under no obligation.
FairSpec == Spec /\ WF_vars(NetworkThread)

\* The client under an application that asks the highest qos in every
\* subscribe.
QosNext ==
    \/ ClientSteps
    \/ \E topic \in Topics : Subscribe(topic, MaxQos)

QosSpec == Init /\ [][QosNext]_vars

\* The client together with the callbacks of its message traffic.
TrafficNext ==
    \/ Next
    \/ OnPublish
    \/ \E prefix \in TopicPrefixes, payload \in Payloads : OnMessage(prefix, payload)

TrafficSpec == Init /\ [][TrafficNext]_vars

(***************************************************************************)
(* The health aggregator (MQTTHealthMonitor).                              *)
(***************************************************************************)
\* BROKERS, as listed.
BROKERS ==
    << [id |-> "broker1", priority |-> 1],
       [id |-> "broker2", priority |-> 2],
       [id |-> "broker3", priority |-> 3],
       [id |-> "broker4", priority |-> 4],
       [id |-> "broker5", priority |-> 5] >>

BrokerIds == {BROKERS[i].id : i \in 1..Len(BROKERS)}

\* The brokers whose health records reach the aggregator.
Reporting == {BROKERS[i].id : i \in 1..NumReporting}

\* The clients whose status records reach the aggregator, named by the last
\* level of the topic clients/status/+.
ClientIds == {"id"}

HEALTH_TOPIC == "system/health/brokers"
CLIENT_STATUS_TOPIC == "clients/status"

\* The topics of the messages that reach on_message: the health topic, and
\* <<CLIENT_STATUS_TOPIC, c>> for clients/status/c.
MonTopics == {<<HEALTH_TOPIC>>} \cup {<<CLIENT_STATUS_TOPIC, c>> : c \in ClientIds}

\* The JSON objects of health messages: a plain record of each reporting
\* broker, a record of the first broker that brings a timestamp and a
\* last_seen of its sender (an old one), and a record without broker_id.
HealthObjects ==
    {[broker_id |-> b, status |-> "online"] : b \in Reporting}
        \cup {[broker_id |-> BROKERS[1].id, status |-> "offline", timestamp |-> "sender",
               last_seen |-> MaxAge]}
        \cup {[status |-> "online"]}

\* The JSON objects of client status messages: what publish_client_status
\* sends, and a record of another sender with a last_seen of its own.
ClientObjects ==
    {[client_id |-> "id", status |-> "connected", timestamp |-> "sender"],
     [client_id |-> "other", status |-> "disconnecting", last_seen |-> MaxAge]}

\* What the payload of a message may be: no JSON at all, JSON that is no
\* object, or a JSON object.
MonPayloads ==
    {[json |-> "invalid", obj |-> <<>>], [json |-> "scalar", obj |-> <<>>]}
        \cup {[json |-> "object", obj |-> o] : o \in HealthObjects \cup ClientObjects}

\* The health messages of the plain kind.
PlainHealth ==
    {[json |-> "object", obj |-> [broker_id |-> b, status |-> "online"]] : b \in Reporting}

\* sorted(..., key=priority) puts a broker behind those of the result whose
\* priority is not greater (the sort is stable).
RECURSIVE InsertByPriority(_, _)
InsertByPriority(broker, sorted) ==
    IF sorted = <<>> THEN <<broker>>
    ELSE IF broker.priority < Head(sorted).priority THEN <<broker>> \o sorted
    ELSE <<Head(sorted)>> \o InsertByPriority(broker, Tail(sorted))

\* Variant of SortedByPriority: the list is reversed.
RECURSIVE ReversedList(_)
ReversedList(brokers) ==
    IF brokers = <<>> THEN <<>>
    ELSE Append(ReversedList(Tail(brokers)), Head(brokers))

\* connect_to_available_broker: sorted(BROKERS, key=lambda x: x['priority']).
RECURSIVE SortedByPriority(_)
SortedByPriority(brokers) ==
    IF brokers = <<>> THEN <<>>
    ELSE InsertByPriority(brokers[Len(brokers)],
                          SortedByPriority(SubSeq(brokers, 1, Len(brokers) - 1)))

\* The list a pass of connect_to_available_broker walks.
SortedBrokers == SortedByPriority(BROKERS)

\* Variant of StampReceipt: a last_seen of the sender is kept.
StampUnlessGiven(obj) ==
    [f \in DOMAIN obj \cup {"last_seen"} |->
        IF f \in DOMAIN obj THEN obj[f] ELSE 0]

\* {**data, "last_seen": datetime.now().isoformat()}: the fields of the
\* payload, last_seen replaced by the time of receipt (age 0).
StampReceipt(obj) ==
    [f \in DOMAIN obj \cup {"last_seen"} |->
        IF f = "last_seen" THEN 0 ELSE obj[f]]

\* Variant of Upsert: the fields of the record already stored are kept where
\* the new record has none.
UpsertMerged(store, key, record) ==
    [k \in DOMAIN store \cup {key} |->
        IF k # key THEN store[k]
        ELSE IF key \notin DOMAIN store THEN record
        ELSE [f \in DOMAIN store[key] \cup DOMAIN record |->
                 IF f \in DOMAIN record THEN record[f] ELSE store[key][f]]]

\* store[key] = record.
Upsert(store, key, record) ==
    [k \in DOMAIN store \cup {key} |-> IF k = key THEN record ELSE store[k]]

\* Variant of handle_broker_health: a record without broker_id is stored
\* under the key None.
handle_broker_health_unchecked(store, obj) ==
    Upsert(store, IF "broker_id" \in DOMAIN obj THEN obj.broker_id ELSE None,
           StampReceipt(obj))

\* handle_broker_health: broker_id = health_data.get("broker_id"); if
\* broker_id: the record is stored under it.
handle_broker_health(store, obj) ==
    IF "broker_id" \in DOMAIN obj
    THEN Upsert(store, obj.broker_id, StampReceipt(obj))
    ELSE store

\* handle_client_status: the key is the last level of the topic.
handle_client_status(store, topic, obj) ==
    Upsert(store, topic[Len(topic)], StampReceipt(obj))

\* on_message: json.loads raises on a payload that is no JSON; get and **
\* raise on JSON that is no object; every exception is caught and logged.
\* The result is the two stores as the callback leaves them.
on_message(brokers, clients, topic, payload) ==
    IF payload.json # "object" THEN <<brokers, clients>>
    ELSE IF topic = <<HEALTH_TOPIC>>
    THEN <<handle_broker_health(brokers, payload.obj), clients>>
    ELSE <<brokers, handle_client_status(clients, topic, payload.obj)>>

\* The messages that carry what their topic expects.
WellFormed(topic, payload) ==
    /\ payload.json = "object"
    /\ topic = <<HEALTH_TOPIC>> => "broker_id" \in DOMAIN payload.obj

\* Variant of Stale: an age equal to the timeout is too old.
StaleInclusive(age) == age >= stale_after

\* Variant of Stale: no age is too old.
StaleNever(age) == FALSE

\* start_monitoring: the test of the health timeout.
Stale(age) == age > stale_after

\* Variant of Aged: a record older than the timeout is evicted.
AgedEvicting(store, seconds) ==
    [k \in {j \in DOMAIN store : store[j].last_seen + seconds <= stale_after} |->
        [store[k] EXCEPT !.last_seen = Min(store[k].last_seen + seconds, MaxAge)]]

\* Every record of a store older by the given time (ages beyond MaxAge are
\* not told apart).
Aged(store, seconds) ==
    [k \in DOMAIN store |->
        [store[k] EXCEPT !.last_seen = Min(store[k].last_seen + seconds, MaxAge)]]

\* start_monitoring, top of the loop: without a broker a pass of
\* connect_to_available_broker starts (up to its first client.connect);
\* with one the loop goes on to the health check.
MonLoopTop ==
    /\ monpc = "top"
    /\ IF connected_broker = None
       THEN /\ monpc' = "pass"
            /\ pass_pos' = 1
            /\ pass_tried' = <<>>
       ELSE /\ monpc' = "check"
            /\ UNCHANGED <<pass_pos, pass_tried>>
    /\ monstep' = "MonLoopTop"
    /\ response' = <<>>
    /\ delivered' = <<>>
    /\ UNCHANGED <<connected_broker, broker_status, client_connections,
                   mon_loop_running, mon_session>>
    /\ UNCHANGED <<received, failover_client, prober>>

\* connect_to_available_broker, one round of the for loop: client.connect
\* returns (the broker is selected, the pass returns True and loop_start()
\* follows) or raises (the next broker, or return False and the sleep of 10
\* seconds).
MonTry(outcome) ==
    /\ monpc = "pass"
    /\ LET broker == SortedBrokers[pass_pos]
       IN  IF outcome = "ok"
           THEN /\ connected_broker' = broker.id
                /\ mon_session' = "tcp"
                /\ mon_loop_running' = TRUE
                /\ monpc' = "check"
                /\ monstep' = "MonTryOk"
                /\ UNCHANGED <<pass_pos, pass_tried>>
           ELSE /\ pass_tried' = Append(pass_tried, broker.id)
                /\ mon_session' = "closed"
                /\ monstep' = "MonTryFail"
                /\ IF pass_pos < Len(BROKERS)
                   THEN pass_pos' = pass_pos + 1 /\ UNCHANGED monpc
                   ELSE monpc' = "retry_sleep" /\ UNCHANGED pass_pos
                /\ UNCHANGED <<connected_broker, mon_loop_running>>
    /\ response' = <<>>
    /\ delivered' = <<>>
    /\ UNCHANGED <<broker_status, client_connections>>
    /\ UNCHANGED <<received, failover_client, prober>>

\* start_monitoring: the sleep of 10 seconds after a pass without success is
\* over.
MonRetryWake ==
    /\ monpc = "retry_sleep"
    /\ monpc' = "top"
    /\ monstep' = "MonRetryWake"
    /\ response' = <<>>
    /\ delivered' = <<>>
    /\ UNCHANGED <<connected_broker, broker_status, client_connections, pass_pos,
                   pass_tried, mon_loop_running, mon_session>>
    /\ UNCHANGED <<received, failover_client, prober>>

\* start_monitoring, if self.connected_broker: with a broker the loop goes
\* on to read its id, without one to the sleep of 5 seconds.
MonCheckGuard ==
    /\ monpc = "check"
    /\ monpc' = IF connected_broker # None THEN "check_id" ELSE "sleep"
    /\ monstep' = "MonCheckGuard"
    /\ response' = <<>>
    /\ delivered' = <<>>
    /\ UNCHANGED <<connected_broker, broker_status, client_connections, pass_pos,
                   pass_tried, mon_loop_running, mon_session>>
    /\ UNCHANGED <<received, failover_client, prober>>

\* start_monitoring, broker_id = self.connected_broker['id'] and the health
\* check: subscripting None raises TypeError, which nothing catches and
\* which ends the thread of start_monitoring; a record older than the
\* timeout stops the network loop, disconnects and forgets the broker; then
\* the sleep of 5 seconds.
MonCheck ==
    /\ monpc = "check_id"
    /\ IF connected_broker = None
       THEN /\ monpc' = "dead"
            /\ monstep' = "MonTypeError"
            /\ UNCHANGED <<mon_loop_running, mon_session, connected_broker>>
       ELSE IF /\ connected_broker \in DOMAIN broker_status
               /\ Stale(broker_status[connected_broker].last_seen)
       THEN /\ mon_loop_running' = FALSE
            /\ mon_session' = "closed"
            /\ connected_broker' = None
            /\ monpc' = "sleep"
            /\ monstep' = "MonTeardown"
       ELSE /\ monpc' = "sleep"
            /\ monstep' = "MonCheck"
            /\ UNCHANGED <<mon_loop_running, mon_session, connected_broker>>
    /\ response' = <<>>
    /\ delivered' = <<>>
    /\ UNCHANGED <<broker_status, client_connections, pass_pos, pass_tried>>
    /\ UNCHANGED <<received, failover_client, prober>>

\* start_monitoring: the sleep of 5 seconds is over.
MonWake ==
    /\ monpc = "sleep"
    /\ monpc' = "top"
    /\ monstep' = "MonWake"
    /\ response' = <<>>
    /\ delivered' = <<>>
    /\ UNCHANGED <<connected_broker, broker_status, client_connections, pass_pos,
                   pass_tried, mon_loop_running, mon_session>>
    /\ UNCHANGED <<received, failover_client, prober>>

\* on_connect, delivered by the network thread when the CONNACK arrives: the
\* two subscriptions.
MonOnConnect ==
    /\ mon_loop_running /\ mon_session = "tcp"
    /\ mon_session' = "acked"
    /\ monstep' = "MonOnConnect"
    /\ response' = <<>>
    /\ delivered' = <<>>
    /\ UNCHANGED <<connected_broker, broker_status, client_connections, monpc,
                   pass_pos, pass_tried, mon_loop_running>>
    /\ UNCHANGED <<received, failover_client, prober>>

\* on_disconnect, delivered by the network thread when the connection is lost.
MonOnDisconnect ==
    /\ mon_loop_running /\ mon_session # "closed"
    /\ mon_session' = "closed"
    /\ connected_broker' = None
    /\ monstep' = "MonOnDisconnect"
    /\ response' = <<>>
    /\ delivered' = <<>>
    /\ UNCHANGED <<broker_status, client_connections, monpc, pass_pos, pass_tried,
                   mon_loop_running>>
    /\ UNCHANGED <<received, failover_client, prober>>

\* on_message, delivered by the network thread for a message of a subscribed
\* topic.  The assignment to the dict is one step for every other thread.
MonOnMessage(topic, payload) ==
    /\ mon_loop_running /\ mon_session = "acked"
    /\ broker_status' = on_message(broker_status, client_connections, topic, payload)[1]
    /\ client_connections' =
           on_message(broker_status, client_connections, topic, payload)[2]
    /\ monstep' = "MonOnMessage"
    /\ delivered' = <<topic, payload>>
    /\ response' = <<>>
    /\ received' =
           IF ~WellFormed(topic, payload) THEN received
           ELSE IF topic = <<HEALTH_TOPIC>>
           THEN [received EXCEPT !.health = (payload.obj.broker_id :> payload.obj) @@ @]
           ELSE [received EXCEPT !.status = (topic[Len(topic)] :> payload.obj) @@ @]
    /\ UNCHANGED <<connected_broker, monpc, pass_pos, pass_tried, mon_loop_running,
                   mon_session>>
    /\ UNCHANGED <<failover_client, prober>>

\* get_brokers: jsonify(broker_status), on a thread of the HTTP server.  The
\* encoder takes the items of the dict in one step under the interpreter
\* lock, and a record is never modified once it is stored (an upsert binds
\* the key to a new dict), so the response is the store of one moment.
ReadBrokers ==
    /\ response' = broker_status
    /\ delivered' = <<>>
    /\ monstep' = "ReadBrokers"
    /\ UNCHANGED <<connected_broker, broker_status, client_connections, monpc,
                   pass_pos, pass_tried, mon_loop_running, mon_session>>
    /\ UNCHANGED <<received, failover_client, prober>>

\* get_clients: jsonify(client_connections), on a thread of the HTTP server.
ReadClients ==
    /\ response' = client_connections
    /\ delivered' = <<>>
    /\ monstep' = "ReadClients"
    /\ UNCHANGED <<connected_broker, broker_status, client_connections, monpc,
                   pass_pos, pass_tried, mon_loop_running, mon_session>>
    /\ UNCHANGED <<received, failover_client, prober>>

\* Time passes: every health record is older by the length of the health
\* timeout, so that a record is fresh, exactly as old as the timeout, or
\* older.  The age of the client records, which the code never reads, is not
\* followed.
Tick ==
    /\ \E k \in DOMAIN broker_status : broker_status[k].last_seen < MaxAge
    /\ broker_status' = Aged(broker_status, stale_after)
    /\ UNCHANGED client_connections
    /\ monstep' = "Tick"
    /\ response' = <<>>
    /\ delivered' = <<>>
    /\ UNCHANGED <<connected_broker, monpc, pass_pos, pass_tried, mon_loop_running,
                   mon_session>>
    /\ UNCHANGED <<received, failover_client, prober>>

\* The steps of the thread of start_monitoring.
MonitorLoop ==
    \/ MonLoopTop
    \/ \E outcome \in {"ok", "refused"} : MonTry(outcome)
    \/ MonRetryWake
    \/ MonCheckGuard
    \/ MonCheck
    \/ MonWake

\* The aggregator among brokers that accept or refuse its connections and
\* send plain health records.
MonitorNext ==
    \/ MonitorLoop
    \/ MonOnConnect
    \/ MonOnDisconnect
    \/ \E payload \in PlainHealth : MonOnMessage(<<HEALTH_TOPIC>>, payload)
    \/ Tick

MonitorSpec == Init /\ [][MonitorNext]_vars

\* The aggregator with a first broker that accepts its connections, fed
\* every kind of message and read over HTTP.
StoreNext ==
    \/ MonLoopTop
    \/ MonTry("ok")
    \/ MonCheckGuard
    \/ MonCheck
    \/ MonWake
    \/ MonOnConnect
    \/ MonOnDisconnect
    \/ \E topic \in MonTopics, payload \in MonPayloads : MonOnMessage(topic, payload)
    \/ ReadBrokers
    \/ ReadClients
    \/ Tick

StoreSpec == Init /\ [][StoreNext]_vars

\* The thread of start_monitoring runs while it can, and a broker is
\* reachable again and again: a pass that is tried again and again succeeds.
MonitorFairSpec ==
    MonitorSpec /\ WF_vars(MonitorLoop) /\ SF_vars(MonTry("ok"))

\* The aggregator with every step it can take.
AggregatorNext == MonitorNext \/ StoreNext

AggregatorSpec == Init /\ [][AggregatorNext]_vars

MonitorTypeOK ==
    /\ connected_broker \in {None} \cup BrokerIds
    /\ \A k \in DOMAIN broker_status : broker_status[k].last_seen \in 0..MaxAge
    /\ \A k \in DOMAIN client_connections :
           client_connections[k].last_seen \in 0..MaxAge
    /\ DOMAIN client_connections \subseteq ClientIds
    /\ monpc \in {"top", "pass", "retry_sleep", "check", "check_id", "sleep", "dead"}
    /\ pass_pos \in 1..Len(BROKERS)
    /\ pass_tried \in Seq(BrokerIds) /\ Len(pass_tried) <= Len(BROKERS)
    /\ mon_loop_running \in BOOLEAN
    /\ mon_session \in {"closed", "tcp", "acked"}

(***************************************************************************)
(* The TCP prober (TCPHealthChecker), as run by periodic_tcp_check on the  *)
(* one instance that main creates.                                         *)
(***************************************************************************)
\* What sock.connect_ex and the calls around it can do: return 0 (connected),
\* return the errno of a refused connection (ECONNREFUSED), of an attempt
\* that ran into the timeout of 5 seconds (EAGAIN) or of a host without a
\* route (EHOSTUNREACH), or raise (a name that does not resolve, no file
\* descriptor left).
ProbeOutcomes ==
    {[kind |-> "errno", errno |-> e] : e \in {0, 111, 11, 113}}
        \cup {[kind |-> "raise", message |-> m] :
                 m \in {"[Errno -2] Name or service not known",
                        "[Errno 24] Too many open files"}}

\* Variant of is_healthy: every errno counts as a connection.
is_healthy_any(result) == result >= 0

\* check_broker: is_healthy = result == 0.
is_healthy(result) == result = 0

\* Variant of check_broker: an exception is logged and leaves no entry.
check_broker_silent(entries, broker, outcome, now) ==
    IF outcome.kind = "raise" THEN <<entries, FALSE>>
    ELSE <<Upsert(entries, broker.id,
                  [broker_id |-> broker.id, port |-> 1883,
                   status |-> IF is_healthy(outcome.errno) THEN "online" ELSE "offline",
                   check_type |-> "tcp", timestamp |-> now]),
           is_healthy(outcome.errno)>>

\* check_broker: the entry written to self.results and the value returned.
\* An exception writes an entry with the status error and str(e).
check_broker(entries, broker, outcome, now) ==
    IF outcome.kind = "raise"
    THEN <<Upsert(entries, broker.id,
                  [broker_id |-> broker.id, status |-> "error",
                   error |-> outcome.message, check_type |-> "tcp",
                   timestamp |-> now]),
           FALSE>>
    ELSE <<Upsert(entries, broker.id,
                  [broker_id |-> broker.id, port |-> 1883,
                   status |-> IF is_healthy(outcome.errno) THEN "online" ELSE "offline",
                   check_type |-> "tcp", timestamp |-> now]),
           is_healthy(outcome.errno)>>

\* MQTTNetworkTester.check_broker_health: return result == 0, and False on
\* an exception.
check_broker_health(outcome) ==
    IF outcome.kind = "raise" THEN FALSE ELSE outcome.errno = 0

\* periodic_tcp_check calls check_all_brokers: the for loop starts at the
\* first broker.  The clock of the entries is counted in sweeps.
SweepStart ==
    /\ sweep_pos \in {0, Len(BROKERS) + 1}
    /\ sweep_no < MaxSweeps
    /\ sweep_no' = sweep_no + 1
    /\ sweep_pos' = 1
    /\ UNCHANGED <<results, probe_returned>>
    /\ UNCHANGED <<failover_client, monitor>>

\* check_all_brokers, one round of the for loop: check_broker on the broker
\* of the round; after the last round, return self.results (sweep_pos is
\* then behind the list, and the mapping returned is results).
ProbeStep(outcome) ==
    /\ sweep_pos \in 1..Len(BROKERS)
    /\ results' = check_broker(results, BROKERS[sweep_pos], outcome, sweep_no)[1]
    /\ probe_returned' = check_broker(results, BROKERS[sweep_pos], outcome, sweep_no)[2]
    /\ sweep_pos' = sweep_pos + 1
    /\ UNCHANGED sweep_no
    /\ UNCHANGED <<failover_client, monitor>>

ProbeNext ==
    \/ SweepStart
    \/ \E outcome \in ProbeOutcomes : ProbeStep(outcome)

ProbeSpec == Init /\ [][ProbeNext]_vars

ProbeTypeOK ==
    /\ DOMAIN results \subseteq BrokerIds
    /\ \A b \in DOMAIN results :
           /\ results[b].status \in {"online", "offline", "error"}
           /\ results[b].timestamp \in 1..MaxSweeps
    /\ sweep_pos \in 0..(Len(BROKERS) + 1)
    /\ sweep_no \in 0..MaxSweeps
    /\ probe_returned \in BOOLEAN

TypeOK ==
    /\ connected \in BOOLEAN
    /\ reconnect_attempts \in 0..max_reconnect_attempts
    /\ subscribed_topics \subseteq Topics
    /\ connection_start \in {None, "time"}
    /\ transport \in {"closed", "pending", "refused", "up"}
    /\ netpc \in {"idle", "backoff", "attempt_wait", "replay", "exited", "crashed"}
    /\ replay_start \subseteq Topics
    /\ prev_replay \in {<<>>} \cup {<<S>> : S \in SUBSET Topics}
    /\ messages_sent \in 0..MaxMessages
    /\ messages_received \in 0..MaxMessages
    /\ returned \in {None, "mid"}
    /\ apppc \in {"idle", "connect_tcp", "connect_wait", "disc_sleep", "disc_join"}
    /\ gave_up => reconnect_attempts = max_reconnect_attempts

(***************************************************************************)
(* Lifecycle states of section 4.1, read off the program state.            *)
(***************************************************************************)
Failed == gave_up
Reconnecting == netpc = "backoff"
AttemptInFlight == netpc = "attempt_wait"
ExplicitConnectReturns == apppc \in {"connect_tcp", "connect_wait"} /\ apppc' = "idle"

(***************************************************************************)
(* Claims.                                                                 *)
(***************************************************************************)

\* C1: after an unexpected disconnect, and as long as the application makes
\* no call, the client is waiting for or making an automatic attempt until it
\* is connected again or Failed; Failed is entered with exactly
\* max_reconnect_attempts attempts made, and no attempt is pending then.
C1_RetriesUntilFailed ==
    /\ (auto = "lost" /\ apppc = "idle" /\ ~connected /\ ~Failed)
           => (Reconnecting \/ AttemptInFlight)
    /\ Failed => (reconnect_attempts = max_reconnect_attempts
                  /\ ~Reconnecting /\ ~AttemptInFlight)

\* C2: once disconnect() has been called while an automatic reconnect is
\* pending or in flight, handle_reconnection starts no connect attempt, and
\* the client does not become connected again before the next connect() call.
C2_DisconnectCancelsReconnect ==
    [][app_intent = "disconnect_pending"
           => (step' # "ReconnectConnect" /\ ~connected')]_vars

\* C3: the on_connect callback of a client whose registry is the same at the
\* end of the replay as at its start runs to its end, and has then published
\* one retained "connected" status record on the client's status topic and
\* re-subscribed each registered topic filter exactly once, and nothing else.
C3_ReplayExactlyOnce ==
    /\ step = "ReplayError" => subscribed_topics # replay_start
    /\ step = "ReplayDone" =>
        /\ subscribed_topics = replay_start
        /\ Cardinality({i \in 1..Len(replay_log) : replay_log[i].kind = "publish"
                            /\ replay_log[i].topic = "clients/status/id"
                            /\ replay_log[i].status = "connected"
                            /\ replay_log[i].retain}) = 1
        /\ \A t \in subscribed_topics :
               Cardinality({i \in 1..Len(replay_log) :
                                replay_log[i].kind = "subscribe"
                                /\ replay_log[i].topic = t}) = 1
        /\ Len(replay_log) = 1 + Cardinality(subscribed_topics)

\* C3 witness: an automatic reconnect of a client holding every topic has
\* finished its replay.
C3_Witness ==
    /\ step = "ReplayDone" /\ auto = "recovered"
    /\ Cardinality(subscribed_topics) = NumTopics
    /\ Len(replay_log) = 1 + NumTopics

\* C4 as claimed: the delay is min(base * 2^attempt_count, cap) with
\* attempt_count the incremented counter.
C4_DelayFromIncrementedCounter ==
    (Reconnecting \/ AttemptInFlight) =>
        LET d == reconnect_delay * (2 ^ reconnect_attempts)
        IN  delay = IF d < max_delay THEN d ELSE max_delay

\* C4 amended: the delay is min(base * 2^(attempt_count - 1), cap) with
\* attempt_count the incremented counter: 5, 10, 20, 40, 60, 60, ...
C4_DelayFromPreviousCounter ==
    (Reconnecting \/ AttemptInFlight) =>
        LET d == reconnect_delay * (2 ^ (reconnect_attempts - 1))
        IN  delay = IF d < max_delay THEN d ELSE max_delay

\* C4 witness: the first retry waits the base delay.
C4_Witness == Reconnecting /\ reconnect_attempts = 1 /\ delay = reconnect_delay

\* C5: the delay never exceeds the cap, the cap is 12 times the base delay,
\* and from one attempt to the next of the same outage the delay does not
\* decrease.
C5_DelayMonotoneAndCapped ==
    /\ [](delay <= max_delay /\ max_delay = 12 * reconnect_delay)
    /\ [][(reconnect_attempts >= 1 /\ reconnect_attempts' = reconnect_attempts + 1)
              => delay' >= delay]_vars

\* C5 witness: the last attempt of the budget waits exactly the cap.
C5_Witness ==
    Reconnecting /\ reconnect_attempts = max_reconnect_attempts /\ delay = max_delay

\* C6: an unexpected disconnect below the maximum starts an attempt and adds
\* exactly 1 to the counter; at the maximum it starts none and gives up; the
\* counter of a started attempt never exceeds the maximum.
C6_CountedAttempts ==
    [][ /\ (step' = "OnDisconnect" /\ reconnect_attempts < max_reconnect_attempts)
           => (reconnect_attempts' = reconnect_attempts + 1 /\ Reconnecting' /\ ~Failed')
        /\ (step' = "OnDisconnect" /\ reconnect_attempts >= max_reconnect_attempts)
           => (reconnect_attempts' = reconnect_attempts /\ ~Reconnecting' /\ Failed')
        /\ (~Reconnecting /\ Reconnecting')
           => (reconnect_attempts' = reconnect_attempts + 1
               /\ reconnect_attempts' <= max_reconnect_attempts)
        /\ (~Failed /\ Failed') => reconnect_attempts = max_reconnect_attempts ]_vars

\* C6 witness: the request after the 10th attempt has given up.
C6_Witness ==
    step = "OnDisconnect" /\ Failed /\ reconnect_attempts = max_reconnect_attempts
        /\ delay = max_delay

\* C7: the step into Connected leaves attempt_count at 0, and it stays 0 while
\* the client is connected.
C7_ConnectedResetsAttempts ==
    /\ [](connected => reconnect_attempts = 0)
    /\ [][step' = "OnConnectOk" => (connected' /\ reconnect_attempts' = 0)]_vars

\* C7 witness: an accepted connection after more than one failed attempt.
C7_Witness ==
    /\ step = "OnConnectOk" /\ auto = "recovered" /\ connected
    /\ reconnect_attempts = 0 /\ delay > reconnect_delay

\* C8 as claimed: a connect() call made in Failed has, when it returns, left
\* Failed and reset attempt_count to 0.
C8_ConnectResetsAttempts ==
    [][(failed_at_call /\ ExplicitConnectReturns)
           => (reconnect_attempts' = 0 /\ ~Failed')]_vars

\* C8 amended: connect() itself never changes attempt_count; the counter goes
\* back to 0 only in on_connect on an accepted connection, so a connect() made
\* in Failed that returns successfully has left Failed with attempt_count 0.
C8_AcknowledgedConnectResetsAttempts ==
    [][ /\ step' \in {"Connect", "ConnectTcp", "ConnectWaitEnd"}
           => reconnect_attempts' = reconnect_attempts
        /\ (reconnect_attempts # 0 /\ reconnect_attempts' = 0) => step' = "OnConnectOk"
        /\ (failed_at_call /\ ExplicitConnectReturns /\ connect_result' = "ok")
           => (reconnect_attempts' = 0 /\ ~Failed') ]_vars

\* C8 witness: a connect() made in Failed has returned successfully.
C8_Witness ==
    /\ failed_at_call /\ step = "ConnectWaitEnd" /\ connect_result = "ok"
    /\ reconnect_attempts = 0 /\ ~Failed

\* C9: a transport disconnect reported after disconnect() was called adds
\* nothing to attempt_count and starts no backoff.
C9_ExplicitDisconnectNoBackoff ==
    [][(ExplicitDisconnect /\ step' \in {"OnDisconnect", "DisconnectJoin"})
           => (reconnect_attempts' = reconnect_attempts /\ ~Reconnecting')]_vars

\* C10: from the moment connect() has returned its timeout error until the
\* next connect() call, the client is not connected.
C10_TimeoutStaysDisconnected ==
    [][connect_result' = "timeout" => ~connected']_vars

C12_ReplayIsRegistry ==
    step = "ReplayDone" =>
        /\ SubscribedIn(replay_log) = subscribed_topics
        /\ prev_replay = <<subscribed_topics>>
               => <<SubscribedIn(replay_log)>> = prev_replay

\* C12 witness: the second of two replays of the full registry has ended.
C12_Witness ==
    /\ step = "ReplayDone" /\ prev_replay = <<subscribed_topics>>
    /\ subscribed_topics = Topics /\ SubscribedIn(replay_log) = Topics

\* C13 as claimed: the replay after a reconnect re-subscribes a topic with
\* the qos of the last subscribe for it; under an application that always
\* asks the highest qos, every subscribe of such a replay carries the highest
\* qos.
C13_ReplayUsesRegisteredQos ==
    (step = "ReplayStep" /\ auto = "recovered") =>
        \A i \in 1..Len(sent) : sent[i].kind = "subscribe" => sent[i].qos = MaxQos

\* C14: the registry changes only in a subscribe call that is carried out,
\* which adds its topic and removes none; the callbacks, the reconnect loop,
\* the replay, connect and disconnect leave it as it is.
C14_RegistryOnlyBySubscribe ==
    [][/\ subscribed_topics' # subscribed_topics => step' = "Subscribe"
       /\ step' = "Subscribe" =>
              subscribed_topics' = subscribed_topics \cup {sent'[1].topic}
       /\ step' \in {"OnConnectOk", "OnConnectRefused", "ReplayStep", "ReplayDone",
                      "ReplayError", "OnDisconnect", "ReconnectConnect",
                      "ReconnectWaitEnd", "Connect", "ConnectTcp",
                      "ConnectWaitEnd", "Disconnect", "DisconnectWake",
                      "DisconnectJoin"}
              => subscribed_topics' = subscribed_topics]_vars

\* C14 witness: the full registry has come through ten rounds of the
\* reconnect loop.
C14_Witness ==
    /\ subscribed_topics = Topics
    /\ Reconnecting /\ reconnect_attempts = max_reconnect_attempts

\* C15 as claimed: the replay of a registry that holds topics never ends in
\* an error, whatever the application subscribes meanwhile, and a replay that
\* has ended has re-subscribed every topic the registry held when it started.
C15_ReplaySurvivesSubscribe ==
    /\ replay_start # {} => step # "ReplayError"
    /\ step = "ReplayDone" => replay_start \subseteq SubscribedIn(replay_log)

\* C16: the step into Connected resets attempt_count, records connected_since
\* and publishes the "connected" status record and nothing else; every
\* re-subscribe comes in a later step and after the status record, and finds
\* the counter reset and connected_since recorded.
C16_StatusBeforeReplay ==
    /\ [][step' = "OnConnectOk" =>
              /\ connected' /\ reconnect_attempts' = 0 /\ connection_start' # None
              /\ sent' = <<StatusPacket("connected")>>
              /\ replay_log' = sent']_vars
    /\ [][step' = "ReplayStep" =>
              /\ connected /\ reconnect_attempts = 0 /\ connection_start # None
              /\ Len(sent') = 1 /\ sent'[1].kind = "subscribe"
              /\ replay_log # <<>> /\ replay_log[1] = StatusPacket("connected")]_vars
    /\ [](\A i \in 1..Len(replay_log) :
              replay_log[i].kind = "subscribe" =>
                  i > 1 /\ replay_log[1] = StatusPacket("connected"))

\* C16 witness: the last re-subscribe of an automatic reconnect has just been
\* sent, after the status record.
C16_Witness ==
    /\ step = "ReplayStep" /\ auto = "recovered"
    /\ replay_log[1] = StatusPacket("connected")
    /\ SubscribedIn(replay_log) = Topics

\* C17: disconnect() called while connected publishes the "disconnecting"
\* status record and leaves the transport as it is, and called while not
\* connected publishes nothing; the call tears the transport down only in its
\* last step, which leaves the client disconnected with the loop stopped;
\* and once the call has returned the client stays disconnected until the
\* application calls connect().
C17_DisconnectPublishesThenCloses ==
    /\ [][step' = "Disconnect" =>
              /\ connected => (sent' = <<StatusPacket("disconnecting")>> /\ connected')
              /\ ~connected => sent' = <<>>
              /\ transport' = transport /\ loop_running' = loop_running]_vars
    /\ [][step' = "DisconnectWake" => transport' = transport /\ sent' = <<>>]_vars
    /\ [][step' = "DisconnectJoin" =>
              /\ ~connected' /\ transport' = "closed" /\ ~loop_running'
              /\ apppc' = "idle" /\ sent' = <<>>]_vars
    /\ []((ExplicitDisconnect /\ apppc = "idle") =>
              (~connected /\ transport = "closed" /\ ~loop_running))

\* C17 witness: disconnect() has just published its record on a connection
\* that is up.
C17_Witness ==
    /\ step = "Disconnect" /\ apppc = "disc_sleep"
    /\ sent = <<StatusPacket("disconnecting")>>
    /\ connected /\ transport = "up" /\ subscribed_topics # {}

\* C18 as claimed: after the loss of a connection, every step that starts a
\* reconnect attempt, and the step that gives up, publishes a status record
\* on the client's status topic.
C18_AttemptsInStatusStream ==
    [][(step' = "OnDisconnect" /\ auto' = "lost" /\ (Reconnecting' \/ Failed')) =>
           \E i \in 1..Len(sent') :
               sent'[i].kind = "publish" /\ sent'[i].topic = "clients/status/id"]_vars

\* C19 as claimed: two connect attempts never overlap; the application is
\* never inside connect() while the network thread is inside the connect()
\* of a reconnect attempt.
C19_OneConnectAtATime ==
    ~(apppc \in {"connect_tcp", "connect_wait"} /\ AttemptInFlight)

\* C20: a pass of connect_to_available_broker selects a broker only after
\* having tried in vain, in ascending order of priority, exactly the brokers
\* of smaller priority number; and a broker that fails is the one of the
\* smallest priority number not yet tried in the pass.
C20_FirstAcceptingByPriority ==
    LET Prio(id) == (CHOOSE b \in {BROKERS[i] : i \in 1..Len(BROKERS)} : b.id = id).priority
        Ascending(tried) ==
            \A i, j \in 1..Len(tried) : i < j => Prio(tried[i]) < Prio(tried[j])
        Before(id) == {b \in BrokerIds : Prio(b) < Prio(id)}
        Tried(tried) == {tried[i] : i \in 1..Len(tried)}
    IN  /\ monstep = "MonTryOk" =>
            /\ connected_broker # None
            /\ Tried(pass_tried) = Before(connected_broker)
            /\ Ascending(pass_tried)
        /\ monstep = "MonTryFail" =>
            /\ Ascending(pass_tried)
            /\ Tried(pass_tried) =
                   Before(pass_tried[Len(pass_tried)]) \cup {pass_tried[Len(pass_tried)]}

\* C20 witness: brokers 1 and 2 have refused and broker 3 is selected.
C20_Witness ==
    /\ monstep = "MonTryOk"
    /\ pass_tried = <<"broker1", "broker2">>
    /\ connected_broker = "broker3"

\* C21 as claimed: the aggregator never stops trying; with a broker that is
\* reachable again and again, an aggregator without a watched broker
\* eventually watches one.
C21_EventuallyWatches ==
    (connected_broker = None) ~> (connected_broker # None)

\* C22: a health check that finds the record of the watched broker older
\* than 30 seconds stops the network loop, closes the connection and forgets
\* the broker; the loop then sleeps, and its next iteration starts a pass of
\* connect_to_available_broker at the first broker.
C22_StaleBrokerTornDown ==
    /\ [][(/\ monpc = "check_id" /\ monpc' # "check_id"
           /\ connected_broker \in DOMAIN broker_status
           /\ broker_status[connected_broker].last_seen > stale_after) =>
              (/\ ~mon_loop_running' /\ mon_session' = "closed"
               /\ connected_broker' = None
               /\ monstep' = "MonTeardown" /\ monpc' = "sleep")]_vars
    /\ [][(monstep = "MonTeardown" /\ monpc' # monpc) =>
              (monpc' = "top" /\ connected_broker' = None)]_vars
    /\ [][(monpc = "top" /\ connected_broker = None /\ monpc' # monpc) =>
              (monpc' = "pass" /\ pass_pos' = 1 /\ pass_tried' = <<>>)]_vars
    /\ (monstep = "MonTeardown") ~> (monpc = "pass")

\* C22 witness: a pass runs while the network loop is stopped and the store
\* holds a record older than the timeout: the pass follows a teardown.
C22_Witness ==
    /\ monpc = "pass" /\ ~mon_loop_running
    /\ \E b \in DOMAIN broker_status : broker_status[b].last_seen > stale_after

\* C27 as claimed: the thread of start_monitoring is never ended by an
\* exception.
C27_MonitoringNeverDies ==
    monpc # "dead"

\* C23 as claimed: a record that carries an identifier of its source
\* (broker_id in a health record, client_id in a client status record) is
\* stored under that identifier.
C23_KeyedByEmbeddedId ==
    [][(delivered' # <<>> /\ WellFormed(delivered'[1], delivered'[2])) =>
          LET topic == delivered'[1]
              obj == delivered'[2].obj
          IN  IF topic = <<HEALTH_TOPIC>>
              THEN /\ obj.broker_id \in DOMAIN broker_status'
                   /\ broker_status'[obj.broker_id].status = obj.status
              ELSE "client_id" \in DOMAIN obj =>
                       /\ obj.client_id \in DOMAIN client_connections'
                       /\ client_connections'[obj.client_id].status = obj.status]_vars

\* C23, amended: a health record is stored under the broker_id it carries, a
\* client status record under the last level of the topic it arrived on,
\* whatever client_id it carries.  The value stored is the record received,
\* with last_seen set at receipt: it has the fields of that record and no
\* other.  The entries of other keys and the other store are unchanged.
C23_UpsertLastWriteWins ==
    [][(delivered' # <<>> /\ WellFormed(delivered'[1], delivered'[2])) =>
          LET topic == delivered'[1]
              obj == delivered'[2].obj
              health == topic = <<HEALTH_TOPIC>>
              key == IF health THEN obj.broker_id ELSE topic[Len(topic)]
              before == IF health THEN broker_status ELSE client_connections
              after == IF health THEN broker_status' ELSE client_connections'
          IN  /\ DOMAIN after = DOMAIN before \cup {key}
              /\ \A k \in DOMAIN before \ {key} : after[k] = before[k]
              /\ DOMAIN after[key] = DOMAIN obj \cup {"last_seen"}
              /\ \A f \in DOMAIN obj \ {"last_seen"} : after[key][f] = obj[f]
              /\ IF health THEN client_connections' = client_connections
                 ELSE broker_status' = broker_status]_vars

\* C23 witness: a client status record that names another client has just
\* been stored under the client of its topic, beside the records of two
\* brokers, one of them with a field the other has not.
C23_Witness ==
    /\ delivered # <<>> /\ delivered[1] = <<CLIENT_STATUS_TOPIC, "id">>
    /\ "id" \in DOMAIN client_connections
    /\ "client_id" \in DOMAIN client_connections["id"]
    /\ client_connections["id"].client_id = "other"
    /\ \E a, b \in DOMAIN broker_status :
           "timestamp" \in DOMAIN broker_status[a] \ DOMAIN broker_status[b]

\* C24: the last_seen of a record is set by the receiver when the record is
\* stored (age 0 at receipt), whatever timestamp or last_seen the sender put
\* into the payload; and the health check tears down exactly on the age
\* since receipt of the record of the watched broker.
C24_ReceiverLocalTime ==
    /\ [][(delivered' # <<>> /\ WellFormed(delivered'[1], delivered'[2])) =>
              IF delivered'[1] = <<HEALTH_TOPIC>>
              THEN broker_status'[delivered'[2].obj.broker_id].last_seen = 0
              ELSE client_connections'[delivered'[1][2]].last_seen = 0]_vars
    /\ [][(/\ monpc = "check_id" /\ monpc' # monpc
           /\ connected_broker \in DOMAIN broker_status) =>
              (monstep' = "MonTeardown" <=>
                   broker_status[connected_broker].last_seen > stale_after)]_vars

\* C24 witness: the health check has just passed the record of the watched
\* broker, which arrived with a timestamp and an old last_seen of its sender
\* and is stored with the age 0.
C24_Witness ==
    /\ monstep = "MonCheck"
    /\ connected_broker \in DOMAIN broker_status
    /\ "timestamp" \in DOMAIN broker_status[connected_broker]
    /\ broker_status[connected_broker].last_seen = 0

\* C25: a message that is no JSON, JSON that is no object, or a health
\* message without broker_id leaves both stores as they were and leaves the
\* network thread running and connected, so that the next message is
\* received and stored as any other.
C25_MalformedDropped ==
    /\ [][(delivered' # <<>> /\ ~WellFormed(delivered'[1], delivered'[2])) =>
              /\ broker_status' = broker_status
              /\ client_connections' = client_connections
              /\ mon_loop_running' /\ mon_session' = "acked"]_vars
    /\ []((delivered # <<>> /\ ~WellFormed(delivered[1], delivered[2])) =>
              \A topic \in MonTopics, payload \in MonPayloads :
                  ENABLED MonOnMessage(topic, payload))

\* C25 witness: a health message without broker_id has just been dropped
\* with records of two brokers and a client in the stores.
C25_Witness ==
    /\ delivered = <<<<HEALTH_TOPIC>>, [json |-> "object", obj |-> [status |-> "online"]]>>
    /\ Cardinality(DOMAIN broker_status) = 2
    /\ DOMAIN client_connections # {}

\* C26: whatever the order of the steps of the network thread, of the
\* monitoring loop and of the HTTP threads, each store holds, for every key
\* a message was filed under, the record of the last such message and
\* nothing of an earlier one; and a read of a store returns all of it.
C26_ReadsSeeEveryUpsert ==
    LET Latest(store, last) ==
            /\ DOMAIN store = DOMAIN last
            /\ \A k \in DOMAIN last :
                   /\ DOMAIN store[k] = DOMAIN last[k] \cup {"last_seen"}
                   /\ \A f \in DOMAIN last[k] \ {"last_seen"} : store[k][f] = last[k][f]
    IN  /\ Latest(broker_status, received.health)
        /\ Latest(client_connections, received.status)
        /\ monstep = "ReadBrokers" => Latest(response, received.health)
        /\ monstep = "ReadClients" => Latest(response, received.status)

\* C26 witness: a read of broker_status returns the records of two brokers,
\* of different kinds and received at different times.
C26_Witness ==
    /\ monstep = "ReadBrokers"
    /\ \E a, b \in DOMAIN response :
           /\ response[a].last_seen < response[b].last_seen
           /\ response[a].status # response[b].status

\* C30: no step removes a key from broker_status or from client_connections,
\* the teardown after a health timeout included.
C30_KeysOnlyGrow ==
    [][/\ DOMAIN broker_status \subseteq DOMAIN broker_status'
       /\ DOMAIN client_connections \subseteq DOMAIN client_connections'
       /\ monstep' = "MonTeardown" =>
              /\ broker_status' = broker_status
              /\ client_connections' = client_connections]_vars

\* C30 witness: after a teardown the aggregator runs its next pass, and the
\* stores still hold the record that was too old, that of another broker and
\* that of a client.
C30_Witness ==
    /\ monpc = "pass" /\ ~mon_loop_running
    /\ DOMAIN broker_status = Reporting
    /\ DOMAIN client_connections = ClientIds
    /\ \A b \in DOMAIN broker_status : broker_status[b].last_seen = MaxAge

\* C28: check_broker records online when the connect returns 0, offline
\* when it returns an errno (refused, timed out, no route), and error with
\* the text of the exception, which is not empty, when a call raises; it
\* returns True exactly when it records online, and so does
\* check_broker_health of the network tester.
C28_ProbeStatus ==
    [][\A outcome \in ProbeOutcomes :
          ProbeStep(outcome) =>
              LET entry == results'[BROKERS[sweep_pos].id]
              IN  /\ entry.broker_id = BROKERS[sweep_pos].id
                  /\ (outcome.kind = "errno" /\ outcome.errno = 0) =>
                         entry.status = "online"
                  /\ (outcome.kind = "errno" /\ outcome.errno # 0) =>
                         entry.status = "offline"
                  /\ outcome.kind = "raise" =>
                         /\ entry.status = "error"
                         /\ entry.error = outcome.message /\ entry.error # ""
                  /\ probe_returned' = (entry.status = "online")
                  /\ check_broker_health(outcome) = probe_returned']_vars

\* C28 witness: a sweep has recorded a broker online, one offline and one
\* with an error, and the last check_broker returned True.
C28_Witness ==
    /\ {results[b].status : b \in DOMAIN results} = {"online", "offline", "error"}
    /\ probe_returned

\* C29: a sweep visits the brokers one after the other whatever the outcome
\* of each check, and the mapping it returns has an entry for every broker
\* of BROKERS and no other, each written by this sweep for its own broker.
C29_SweepComplete ==
    /\ [][sweep_pos' # sweep_pos =>
              \/ sweep_pos \in 1..Len(BROKERS) /\ sweep_pos' = sweep_pos + 1
              \/ sweep_pos \in {0, Len(BROKERS) + 1} /\ sweep_pos' = 1]_vars
    /\ [](sweep_pos = Len(BROKERS) + 1 =>
              /\ DOMAIN results = BrokerIds
              /\ \A b \in BrokerIds :
                     /\ results[b].broker_id = b
                     /\ results[b].timestamp = sweep_no)

\* C29 witness: the second sweep has returned; during it the first broker
\* raised and the last one was refused, after a first sweep.
C29_Witness ==
    /\ sweep_no = 2
    /\ sweep_pos = Len(BROKERS) + 1
    /\ results["broker1"].status = "error"
    /\ results["broker5"].status = "offline"

\* C32 as claimed: the first health check after a broker is selected, which
\* runs before the CONNACK of the new connection is handled and so before
\* any record of the new connection, leaves the broker watched.
C32_NewBrokerStaysWatched ==
    [][(/\ monpc = "check_id" /\ monpc' # monpc
        /\ connected_broker # None /\ mon_session = "tcp") =>
           connected_broker' = connected_broker]_vars

\* C33: a health check tears down only with a record of the watched broker
\* older than 30 seconds in the store; with no record of it, or with a
\* record of at most 30 seconds, the check leaves the broker, the connection
\* and the network loop as they are.
C33_TeardownOnlyWhenOlder ==
    /\ [][monstep' = "MonTeardown" =>
              /\ connected_broker \in DOMAIN broker_status
              /\ broker_status[connected_broker].last_seen > stale_after]_vars
    /\ [][(/\ monpc = "check_id" /\ monpc' # monpc /\ connected_broker # None
           /\ \/ connected_broker \notin DOMAIN broker_status
              \/ broker_status[connected_broker].last_seen <= stale_after) =>
              (/\ connected_broker' = connected_broker
               /\ mon_session' = mon_session
               /\ mon_loop_running' = mon_loop_running
               /\ monpc' = "sleep")]_vars

\* C33 witness: a health check has just left watched a broker whose record
\* is exactly 30 seconds old.
C33_Witness ==
    /\ monstep = "MonCheck"
    /\ connected_broker \in DOMAIN broker_status
    /\ broker_status[connected_broker].last_seen = stale_after

\* C34: reconnect_attempts is never negative and never above
\* max_reconnect_attempts.
C34_AttemptsBounded ==
    0 <= reconnect_attempts /\ reconnect_attempts <= max_reconnect_attempts

\* C34 witness: with the attempts used up and the client given up, the
\* application is inside a connect() of its own.
C34_Witness ==
    /\ reconnect_attempts = max_reconnect_attempts
    /\ gave_up
    /\ apppc = "connect_wait"

\* C31 as claimed: after an unexpected disconnect a client that is neither
\* connected nor Failed becomes connected or Failed, unless the application
\* calls connect() or disconnect() first.
C31_ConnectedOrFailed ==
    (auto = "lost" /\ ~connected /\ ~Failed) ~> (connected \/ Failed \/ auto = "none")
====
